---------------------------- MODULE Spec2Model ----------------------------
(***************************************************************************)
(* Model of package ecszap's field encoders (encoder.go): the three time   *)
(* encoders, the two caller encoders with the object they marshal, and     *)
(* CallerEncoder.UnmarshalText.                                            *)
(*                                                                         *)
(* Go strings are sequences of one-character strings, so that indexing,    *)
(* slicing and formatting are computed and not assumed.  A time.Time is    *)
(* the record [sec, nsec, offset]: the instant as Unix seconds plus        *)
(* nanoseconds, and the zone offset of its location in seconds east of     *)
(* UTC.                                                                    *)
(***************************************************************************)
EXTENDS Integers, Sequences, FiniteSets

VARIABLES
    e,      \* the CallerEncoder variable that UnmarshalText is called on
    arg,    \* the value the host hands to the next call (a time, a caller or a text)
    enc,    \* the sink (zapcore.PrimitiveArrayEncoder) the host passes along
    last    \* the call made last: its name, its arguments and how it ended

vars == <<e, arg, enc, last>>

(***************************************************************************)
(* Bounds of the model.                                                    *)
(***************************************************************************)
MaxPathLen == 3     \* longest generated trimmed path
MaxElems == 2       \* most values one sink receives

(***************************************************************************)
(* Strings.                                                                *)
(***************************************************************************)
Digits == <<"0", "1", "2", "3", "4", "5", "6", "7", "8", "9">>

DigitChar(d) == Digits[d + 1]

IsDigit(ch) == \E i \in 1..10 : Digits[i] = ch

\* n printed in exactly w digits, zero padded (n < 10^w)
RECURSIVE Pad(_, _)
Pad(n, w) == IF w = 0 THEN <<>>
             ELSE Append(Pad(n \div 10, w - 1), DigitChar(n % 10))

\* strings.LastIndex(s, ch) for a one-character ch: 0-based, -1 when absent
LastIndex(s, ch) ==
    LET hits == {i \in 1..Len(s) : s[i] = ch}
    IN  IF hits = {} THEN -1
        ELSE (CHOOSE i \in hits : \A j \in hits : j <= i) - 1

(***************************************************************************)
(* time.Time: civil date of a day count, and Format for the two layouts    *)
(* that matter here.                                                       *)
(***************************************************************************)
rfc3339millis == "2006-01-02T15:04:05.000Z07:00"
RFC3339 == "2006-01-02T15:04:05Z07:00"

UTC == 0

\* t.In(loc): the same instant, seen in the location with this offset
In(t, loc) == [t EXCEPT !.offset = loc]

\* [year, month, day] of the day `days` days after 1970-01-01
CivilFromDays(days) ==
    LET z   == days + 719468
        era == z \div 146097
        doe == z - era * 146097
        yoe == (doe - doe \div 1460 + doe \div 36524 - doe \div 146096) \div 365
        doy == doe - (365 * yoe + yoe \div 4 - yoe \div 100)
        mp  == (5 * doy + 2) \div 153
        d   == doy - (153 * mp + 2) \div 5 + 1
        m   == IF mp < 10 THEN mp + 3 ELSE mp - 9
        y   == yoe + era * 400 + (IF m <= 2 THEN 1 ELSE 0)
    IN  [year |-> y, month |-> m, day |-> d]

\* the "Z07:00" element: Z at offset zero, else sign and hh:mm
FormatZone(offset) ==
    LET zone == IF offset < 0 THEN (0 - offset) \div 60 ELSE offset \div 60
    IN  IF offset = 0 THEN <<"Z">>
        ELSE <<IF offset < 0 THEN "-" ELSE "+">>
             \o Pad(zone \div 60, 2) \o <<":">> \o Pad(zone % 60, 2)

\* t.Format(layout): ".000" prints the milliseconds, truncated
Format(t, layout) ==
    LET local == t.sec + t.offset
        date  == CivilFromDays(local \div 86400)
        secs  == local % 86400
    IN  Pad(date.year, 4) \o <<"-">> \o Pad(date.month, 2) \o <<"-">>
        \o Pad(date.day, 2) \o <<"T">> \o Pad(secs \div 3600, 2) \o <<":">>
        \o Pad((secs % 3600) \div 60, 2) \o <<":">> \o Pad(secs % 60, 2)
        \o (IF layout = rfc3339millis
            THEN <<".">> \o Pad(t.nsec \div 1000000, 3)
            ELSE <<>>)
        \o FormatZone(t.offset)

(***************************************************************************)
(* The sink.  A zapcore.PrimitiveArrayEncoder always takes AppendFloat64   *)
(* and AppendString; it may also be a zapcore.ArrayEncoder (AppendObject)  *)
(* and may also have AppendTimeLayout.  elems is what it received so far.  *)
(***************************************************************************)
AppendFloat64(s, v) ==
    [s EXCEPT !.elems = Append(@, [op |-> "AppendFloat64", v |-> v])]

AppendString(s, str) ==
    [s EXCEPT !.elems = Append(@, [op |-> "AppendString", s |-> str])]

AppendTimeLayout(s, t, layout) ==
    [s EXCEPT !.elems = Append(@, [op |-> "AppendTimeLayout", t |-> t,
                                   layout |-> layout])]

\* the text a sink puts out for an element: a time given with its layout is
\* formatted by the sink with that layout
Rendered(el) ==
    IF el.op = "AppendTimeLayout" THEN Format(el.t, el.layout) ELSE el.s

(***************************************************************************)
(* Time encoders.                                                          *)
(***************************************************************************)
Microsecond == 1000     \* time.Microsecond, in nanoseconds

\* t.UnixNano(): sec * 10^9 + nsec, kept as the pair (it exceeds 32 bits)
UnixNano(t) == [sec |-> t.sec, nsec |-> t.nsec]

\* float64(n) / float64(d) for d dividing 10^9, as the exact quotient
\* secs * (10^9 / d) + whole + rem / d; the float64 is its nearest value
FloatDiv(n, d) ==
    [secs |-> n.sec, whole |-> n.nsec \div d, rem |-> n.nsec % d, per |-> d]

\* as if the microseconds were taken by integer division
EpochMicrosTimeEncoderWhole(t, s) ==
    LET micros == FloatDiv(UnixNano(t), Microsecond)
    IN  AppendFloat64(s, [micros EXCEPT !.rem = 0])

EpochMicrosTimeEncoder(t, s) ==
    LET micros == FloatDiv(UnixNano(t), Microsecond)
    IN  AppendFloat64(s, micros)

\* as if the sink were handed the time package's second-resolution layout
RFC3339TimeEncoderSecondsLayout(t, s) ==
    IF s.appendTimeLayout
    THEN AppendTimeLayout(s, t, RFC3339)
    ELSE AppendString(s, Format(t, rfc3339millis))

\* as if the return after AppendTimeLayout were missing
RFC3339TimeEncoderNoReturn(t, s) ==
    AppendString(IF s.appendTimeLayout
                 THEN AppendTimeLayout(s, t, rfc3339millis) ELSE s,
                 Format(t, rfc3339millis))

RFC3339TimeEncoder(t, s) ==
    IF s.appendTimeLayout
    THEN AppendTimeLayout(s, t, rfc3339millis)
    ELSE AppendString(s, Format(t, rfc3339millis))

\* as if the time were not taken to UTC
RFC3339UTCTimeEncoderLocal(t, s) == RFC3339TimeEncoder(t, s)

RFC3339UTCTimeEncoder(t, s) == RFC3339TimeEncoder(In(t, UTC), s)

(***************************************************************************)
(* Caller encoders.                                                        *)
(***************************************************************************)
AddString(fields, key, value) ==
    Append(fields, [op |-> "AddString", key |-> key, str |-> value, int |-> 0])

AddInt(fields, key, value) ==
    Append(fields, [op |-> "AddInt", key |-> key, str |-> <<>>, int |-> value])

\* strings.Index(s, ch) for a one-character ch: 0-based, -1 when absent
Index(s, ch) ==
    LET hits == {i \in 1..Len(s) : s[i] = ch}
    IN  IF hits = {} THEN -1
        ELSE (CHOOSE i \in hits : \A j \in hits : i <= j) - 1

\* as if the path were cut at its first ':' (strings.Index)
MarshalLogObjectFirstColon(c) ==
    LET trimmed == c.EntryCaller.TrimmedPath
        idx     == Index(trimmed, ":")
        file    == IF c.fullPath THEN c.EntryCaller.File
                   ELSE SubSeq(trimmed, 1, idx)
    IN  IF ~c.fullPath /\ idx < 0
        THEN [panic |-> TRUE, fields |-> <<>>, err |-> "none"]
        ELSE [panic |-> FALSE,
              fields |-> AddInt(AddString(AddString(<<>>,
                             "function", c.EntryCaller.Function),
                             "file.name", file),
                             "file.line", c.EntryCaller.Line),
              err |-> "nil"]

\* as if file.name were added before function
MarshalLogObjectFileFirst(c) ==
    LET trimmed == c.EntryCaller.TrimmedPath
        idx     == LastIndex(trimmed, ":")
        file    == IF c.fullPath THEN c.EntryCaller.File
                   ELSE SubSeq(trimmed, 1, idx)
    IN  IF ~c.fullPath /\ idx < 0
        THEN [panic |-> TRUE, fields |-> <<>>, err |-> "none"]
        ELSE [panic |-> FALSE,
              fields |-> AddInt(AddString(AddString(<<>>,
                             "file.name", file),
                             "function", c.EntryCaller.Function),
                             "file.line", c.EntryCaller.Line),
              err |-> "nil"]

\* (c *caller).MarshalLogObject on an empty object encoder: the fields it
\* adds and the error it returns, or a panic when file[:idx] is out of range
MarshalLogObject(c) ==
    LET trimmed == c.EntryCaller.TrimmedPath
        idx     == LastIndex(trimmed, ":")
        file    == IF c.fullPath THEN c.EntryCaller.File
                   ELSE SubSeq(trimmed, 1, idx)
    IN  IF ~c.fullPath /\ idx < 0
        THEN [panic |-> TRUE, fields |-> <<>>, err |-> "none"]
        ELSE [panic |-> FALSE,
              fields |-> AddInt(AddString(AddString(<<>>,
                             "function", c.EntryCaller.Function),
                             "file.name", file),
                             "file.line", c.EntryCaller.Line),
              err |-> "nil"]

\* ArrayEncoder.AppendObject(c): the sink has c marshal itself into a new
\* object and appends the object; a panic in c leaves no object behind
AppendObject(s, c) ==
    LET m == MarshalLogObject(c)
    IN  IF m.panic THEN [enc |-> s, panic |-> TRUE]
        ELSE [enc |-> [s EXCEPT !.elems = Append(@, [op |-> "AppendObject",
                                    fields |-> m.fields, err |-> m.err])],
              panic |-> FALSE]

encodeCaller(c, s) ==
    IF s.arrayEncoder THEN AppendObject(s, c)
    ELSE [enc |-> s, panic |-> FALSE]

\* as if the full encoder built its caller with fullPath false
FullCallerEncoderTrimmed(c, s) ==
    encodeCaller([EntryCaller |-> c, fullPath |-> FALSE], s)

FullCallerEncoder(c, s) ==
    encodeCaller([EntryCaller |-> c, fullPath |-> TRUE], s)

ShortCallerEncoder(c, s) ==
    encodeCaller([EntryCaller |-> c, fullPath |-> FALSE], s)

(***************************************************************************)
(* CallerEncoder.UnmarshalText: the receiver's new value and the error.    *)
(***************************************************************************)
full == <<"f", "u", "l", "l">>

\* as if a text that names no encoder left the receiver as it was
UnmarshalTextKeepsUnknown(recv, text) ==
    [e |-> IF text = full THEN "FullCallerEncoder"
           ELSE IF text = <<"s", "h", "o", "r", "t">> THEN "ShortCallerEncoder"
           ELSE recv,
     err |-> "nil"]

UnmarshalText(recv, text) ==
    [e |-> IF text = full THEN "FullCallerEncoder" ELSE "ShortCallerEncoder",
     err |-> "nil"]

(***************************************************************************)
(* Inputs.                                                                 *)
(***************************************************************************)
\* 1970-01-01T00:00:00Z, 2021-05-01T10:00:00Z, 2000-02-29T23:59:59Z and the
\* second before the epoch
Secs == {0, 1619863200, 951868799, -1}
Nsecs == {0, 123456000, 999999999, 1999, 500000}
Offsets == {0, 7200, -19800}
Times == [sec : Secs, nsec : Nsecs, offset : Offsets]

PathAlphabet == {"a", ":", "4"}
Strs(n) == UNION {[1..k -> PathAlphabet] : k \in 0..n}
TrimmedPaths ==
    Strs(MaxPathLen)
    \cup {<<"a", "p", "p", "/", "m", "a", "i", "n", ".", "g", "o", ":", "4", "2">>,
          <<"c", ":", "/", "m", ".", "g", "o", ":", "4", "2">>,
          <<"u", "n", "d", "e", "f", "i", "n", "e", "d">>}
Files == {<<"/", "s", "r", "c", "/", "a", "p", "p", "/", "m", "a", "i", "n", ".", "g", "o">>,
          <<"c", ":", "/", "m", ".", "g", "o", ":", "4">>}
Lines == {4, 42}
Functions == {<<"m", "a", "i", "n", ".", "R", "u", "n">>}
Callers == [File : Files, Line : Lines, Function : Functions,
            TrimmedPath : TrimmedPaths]

Texts == {<<>>, full, <<"s", "h", "o", "r", "t">>, <<"F", "U", "L", "L">>,
          <<"x", "y", "z">>, <<"f", "u", "l">>, <<"f", "u", "l", "l", " ">>}

NoTime == [sec |-> 0, nsec |-> 0, offset |-> 0]
NoCaller == [File |-> <<>>, Line |-> 0, Function |-> <<>>, TrimmedPath |-> <<>>]
NoArg == [kind |-> "none", t |-> NoTime, c |-> NoCaller]
Args == {[kind |-> "time", t |-> t, c |-> NoCaller] : t \in Times}
        \cup {[kind |-> "caller", t |-> NoTime, c |-> c] : c \in Callers}

NewSink(arr, lay) ==
    [arrayEncoder |-> arr, appendTimeLayout |-> lay, elems |-> <<>>]

Call(op, text, result, err) ==
    [op |-> op, text |-> text, result |-> result, err |-> err,
     arg |-> arg, before |-> enc.elems, prev |-> e]

(***************************************************************************)
(* The state machine.  The host first loads its configuration, unmarshal-  *)
(* ling texts into the CallerEncoder e; then it logs an entry, handing     *)
(* the entry's time or caller and a sink to encoders.  A panic ends the    *)
(* run.                                                                    *)
(***************************************************************************)
Init ==
    /\ e = "nil"
    /\ arg = NoArg
    /\ enc = NewSink(FALSE, FALSE)
    /\ last = [op |-> "none", text |-> <<>>, result |-> "none", err |-> "none",
               arg |-> NoArg, before |-> <<>>, prev |-> "nil"]

CallUnmarshalText(text) ==
    /\ arg.kind = "none"
    /\ e' = UnmarshalText(e, text).e
    /\ last' = Call("UnmarshalText", text, "returned", UnmarshalText(e, text).err)
    /\ UNCHANGED <<arg, enc>>

Log(a, arr, lay) ==
    /\ arg.kind = "none"
    /\ arg' = a
    /\ enc' = NewSink(arr, lay)
    /\ UNCHANGED <<e, last>>

CallTimeEncoder(op, s) ==
    /\ arg.kind = "time"
    /\ last.result # "panic"
    /\ Len(enc.elems) < MaxElems
    /\ enc' = s
    /\ last' = Call(op, <<>>, "returned", "none")
    /\ UNCHANGED <<e, arg>>

CallEpochMicrosTimeEncoder ==
    CallTimeEncoder("EpochMicrosTimeEncoder", EpochMicrosTimeEncoder(arg.t, enc))

CallRFC3339TimeEncoder ==
    CallTimeEncoder("RFC3339TimeEncoder", RFC3339TimeEncoder(arg.t, enc))

CallRFC3339UTCTimeEncoder ==
    CallTimeEncoder("RFC3339UTCTimeEncoder", RFC3339UTCTimeEncoder(arg.t, enc))

CallCallerEncoder(op, r) ==
    /\ arg.kind = "caller"
    /\ last.result # "panic"
    /\ Len(enc.elems) < MaxElems
    /\ enc' = r.enc
    /\ last' = Call(op, <<>>, IF r.panic THEN "panic" ELSE "returned", "none")
    /\ UNCHANGED <<e, arg>>

CallFullCallerEncoder ==
    CallCallerEncoder("FullCallerEncoder", FullCallerEncoder(arg.c, enc))

CallShortCallerEncoder ==
    CallCallerEncoder("ShortCallerEncoder", ShortCallerEncoder(arg.c, enc))

Next ==
    \/ \E text \in Texts : CallUnmarshalText(text)
    \/ \E a \in Args, arr \in BOOLEAN, lay \in BOOLEAN : Log(a, arr, lay)
    \/ CallEpochMicrosTimeEncoder
    \/ CallRFC3339TimeEncoder
    \/ CallRFC3339UTCTimeEncoder
    \/ CallFullCallerEncoder
    \/ CallShortCallerEncoder

Spec == Init /\ [][Next]_vars


(***************************************************************************)
(* What the claims speak of.                                               *)
(***************************************************************************)
Returned(op) == last.op = op /\ last.result = "returned"

\* the call made last appended exactly one element to the sink
OneAppended ==
    /\ Len(enc.elems) = Len(last.before) + 1
    /\ SubSeq(enc.elems, 1, Len(last.before)) = last.before

Appended == enc.elems[Len(enc.elems)]

HasColon(s) == \E i \in 1..Len(s) : s[i] = ":"

\* s ends in ":<line>": a ':' followed by one or more digits, to the end
EndsInLine(s) ==
    \E k \in 1..Len(s) - 1 :
        /\ s[k] = ":"
        /\ \A j \in k + 1..Len(s) : IsDigit(s[j])

\* the value of the object's field `key`, when the object has it just once
FieldsNamed(obj, key) == {i \in 1..Len(obj.fields) : obj.fields[i].key = key}

FileName(obj) ==
    obj.fields[CHOOSE i \in FieldsNamed(obj, "file.name") : TRUE].str

(* C1: after every UnmarshalText call the receiver holds FullCallerEncoder
   exactly when the text is the literal "full" and ShortCallerEncoder for
   every other text, whatever it held before, and the call returns nil. *)
C1_UnmarshalTextSelects ==
    last.op = "UnmarshalText" =>
        /\ last.result = "returned"
        /\ last.err = "nil"
        /\ e \in {"FullCallerEncoder", "ShortCallerEncoder"}
        /\ (e = "FullCallerEncoder") <=> (last.text = <<"f", "u", "l", "l">>)

C1_Witness ==
    /\ last.op = "UnmarshalText"
    /\ last.prev = "FullCallerEncoder"
    /\ last.text = <<"F", "U", "L", "L">>
    /\ e = "ShortCallerEncoder"

(* C2: ShortCallerEncoder on a caller whose trimmed path holds no ':' does
   not fail: it appends the object with file.name the trimmed path as it
   is, and with function and file.line. *)
C2_ShortWithoutColonSucceeds ==
    (/\ last.op = "ShortCallerEncoder"
     /\ enc.arrayEncoder
     /\ ~HasColon(arg.c.TrimmedPath)) =>
        /\ last.result = "returned"
        /\ OneAppended
        /\ Appended.op = "AppendObject"
        /\ FileName(Appended) = arg.c.TrimmedPath
        /\ FieldsNamed(Appended, "function") # {}
        /\ FieldsNamed(Appended, "file.line") # {}

(* C3: a caller encoder given a sink that is no ArrayEncoder writes nothing
   and returns normally; given an ArrayEncoder it appends exactly one
   object. *)
C3_CallerNeedsArrayEncoder ==
    last.op \in {"FullCallerEncoder", "ShortCallerEncoder"} =>
        IF enc.arrayEncoder
        THEN OneAppended /\ Appended.op = "AppendObject"
        ELSE enc.elems = last.before /\ last.result = "returned"

(* C4: for a trimmed path ending in ":<line>", the file.name that
   ShortCallerEncoder emits is the trimmed path up to its last ':', which is
   left out; earlier ':' are kept. *)
C4_ShortStripsFromLastColon ==
    (/\ last.op = "ShortCallerEncoder"
     /\ enc.arrayEncoder
     /\ EndsInLine(arg.c.TrimmedPath)) =>
        /\ last.result = "returned"
        /\ OneAppended
        /\ Appended.op = "AppendObject"
        /\ LET path == arg.c.TrimmedPath
               name == FileName(Appended)
               k    == Len(name) + 1
           IN  /\ k <= Len(path)
               /\ name = SubSeq(path, 1, k - 1)
               /\ path[k] = ":"
               /\ \A j \in k + 1..Len(path) : path[j] # ":"

C4_Witness ==
    /\ Returned("ShortCallerEncoder")
    /\ enc.arrayEncoder
    /\ arg.c.TrimmedPath = <<"c", ":", "/", "m", ".", "g", "o", ":", "4", "2">>
    /\ FileName(Appended) = <<"c", ":", "/", "m", ".", "g", "o">>

(* C5: the file.name that FullCallerEncoder emits is the caller's File as it
   is, whatever the trimmed path, also one without ':'. *)
C5_FullKeepsFile ==
    (last.op = "FullCallerEncoder" /\ enc.arrayEncoder) =>
        /\ last.result = "returned"
        /\ OneAppended
        /\ Appended.op = "AppendObject"
        /\ FileName(Appended) = arg.c.File

C5_Witness ==
    /\ Returned("FullCallerEncoder")
    /\ enc.arrayEncoder
    /\ ~HasColon(arg.c.TrimmedPath)
    /\ HasColon(arg.c.File)
    /\ FileName(Appended) = arg.c.File

(* C6: for both caller encoders and a caller whose trimmed path ends in
   ":<line>", the object holds exactly three fields in this order:
   the string "function" (the caller's Function), the string "file.name",
   the integer "file.line" (the caller's Line); marshalling returns nil. *)
C6_ThreeFieldsInOrder ==
    (/\ last.op \in {"FullCallerEncoder", "ShortCallerEncoder"}
     /\ enc.arrayEncoder
     /\ EndsInLine(arg.c.TrimmedPath)) =>
        /\ last.result = "returned"
        /\ OneAppended
        /\ Appended.op = "AppendObject"
        /\ Appended.err = "nil"
        /\ LET f == Appended.fields
           IN  /\ Len(f) = 3
               /\ <<f[1].op, f[2].op, f[3].op>>
                    = <<"AddString", "AddString", "AddInt">>
               /\ <<f[1].key, f[2].key, f[3].key>>
                    = <<"function", "file.name", "file.line">>
               /\ f[1].str = arg.c.Function
               /\ f[3].int = arg.c.Line

C6_Witness ==
    /\ Returned("ShortCallerEncoder")
    /\ enc.arrayEncoder
    /\ arg.c.Line = 42
    /\ arg.c.TrimmedPath
         = <<"a", "p", "p", "/", "m", "a", "i", "n", ".", "g", "o", ":", "4", "2">>
    /\ Appended.fields[2].str
         = <<"a", "p", "p", "/", "m", "a", "i", "n", ".", "g", "o">>
    /\ Appended.fields[3].int = 42

(* C7: RFC3339UTCTimeEncoder writes for T what the millisecond layout gives
   for T's instant at offset zero, so the output ends in "Z" and is the same
   for every offset T may carry; T itself stays as it was. *)
C7_UTCNormalizes ==
    last.op = "RFC3339UTCTimeEncoder" =>
        /\ OneAppended
        /\ Rendered(Appended)
             = Format([sec |-> arg.t.sec, nsec |-> arg.t.nsec, offset |-> 0],
                      "2006-01-02T15:04:05.000Z07:00")
        /\ Rendered(Appended)[Len(Rendered(Appended))] = "Z"
        /\ \A off \in Offsets :
              LET other == RFC3339UTCTimeEncoder(In(arg.t, off),
                                                 NewSink(FALSE, FALSE))
              IN  Rendered(other.elems[1]) = Rendered(Appended)
        /\ arg = last.arg

C7_Witness ==
    /\ Returned("RFC3339UTCTimeEncoder")
    /\ arg.t = [sec |-> 1619863200, nsec |-> 123456000, offset |-> -19800]
    /\ Rendered(Appended)
         = <<"2", "0", "2", "1", "-", "0", "5", "-", "0", "1", "T", "1", "0",
             ":", "0", "0", ":", "0", "0", ".", "1", "2", "3", "Z">>

\* s has a '.' at position 20 followed by exactly three digits
ThreeFractionDigits(s) ==
    /\ Len(s) >= 24
    /\ s[20] = "."
    /\ \A i \in 21..23 : IsDigit(s[i])
    /\ ~IsDigit(s[24])

(* C8: what RFC3339TimeEncoder puts out through AppendTimeLayout is the same
   text as what it puts out through AppendString, and in both the seconds
   carry exactly three fraction digits. *)
C8_FastPathEqualsFallback ==
    last.op = "RFC3339TimeEncoder" =>
        /\ OneAppended
        /\ LET fast == RFC3339TimeEncoder(arg.t, NewSink(FALSE, TRUE)).elems[1]
               slow == RFC3339TimeEncoder(arg.t, NewSink(FALSE, FALSE)).elems[1]
           IN  /\ fast.op = "AppendTimeLayout"
               /\ slow.op = "AppendString"
               /\ Appended = IF enc.appendTimeLayout THEN fast ELSE slow
               /\ Rendered(fast) = Rendered(slow)
        /\ ThreeFractionDigits(Rendered(Appended))

C8_Witness ==
    /\ Returned("RFC3339TimeEncoder")
    /\ enc.appendTimeLayout
    /\ arg.t = [sec |-> 1619863200, nsec |-> 999999999, offset |-> 7200]
    /\ Rendered(Appended)
         = <<"2", "0", "2", "1", "-", "0", "5", "-", "0", "1", "T", "1", "2",
             ":", "0", "0", ":", "0", "0", ".", "9", "9", "9", "+", "0", "2",
             ":", "0", "0">>

TimeEncoders ==
    {"EpochMicrosTimeEncoder", "RFC3339TimeEncoder", "RFC3339UTCTimeEncoder"}

(* C9: every call of a time encoder writes to the sink exactly once and
   changes nothing else: AppendFloat64 for the epoch encoder; for the other
   two AppendTimeLayout when the sink has it and AppendString when not. *)
C9_ExactlyOneWrite ==
    last.op \in TimeEncoders =>
        /\ last.result = "returned"
        /\ OneAppended
        /\ e = last.prev
        /\ arg = last.arg
        /\ Appended.op =
             IF last.op = "EpochMicrosTimeEncoder" THEN "AppendFloat64"
             ELSE IF enc.appendTimeLayout THEN "AppendTimeLayout"
             ELSE "AppendString"

C9_Witness ==
    /\ Returned("RFC3339UTCTimeEncoder")
    /\ ~enc.appendTimeLayout
    /\ Len(last.before) = 1
    /\ last.before[1].op = "AppendFloat64"
    /\ Len(enc.elems) = 2
    /\ Appended.op = "AppendString"

(* C10: EpochMicrosTimeEncoder writes nanoseconds-since-epoch / 1000 with its
   fraction kept, whatever the offset: 1000 times the value is
   sec * 10^9 + nsec. *)
C10_EpochMicros ==
    last.op = "EpochMicrosTimeEncoder" =>
        /\ OneAppended
        /\ Appended.op = "AppendFloat64"
        /\ LET v == Appended.v
           IN  /\ v.per = 1000
               /\ v.secs = arg.t.sec
               /\ v.whole \in 0..999999
               /\ v.rem \in 0..999
               /\ v.whole * 1000 + v.rem = arg.t.nsec

C10_Witness ==
    /\ Returned("EpochMicrosTimeEncoder")
    /\ arg.t = [sec |-> 1619863200, nsec |-> 123456000, offset |-> 7200]
    /\ Appended.v = [secs |-> 1619863200, whole |-> 123456, rem |-> 0,
                     per |-> 1000]

=============================================================================
